---- MODULE Spec2Model ----
(***************************************************************************)
(* Model of spaceweather/visualisation/animations.py: the six gif drivers  *)
(* data_globe_gif, connections_globe_gif, lag_mat_gif_time,                *)
(* lag_network_gif, corr_thresh_gif and cca_ang_gif.  Every driver runs    *)
(* the same steps: create the output directories, check the file name,     *)
(* render and save one png per index of the iteration axis, open the pngs  *)
(* and save them as one looping gif.                                       *)
(*                                                                         *)
(* Strings that the code inspects (the file name) are sequences of         *)
(* one-character strings.  A file path is a record [dir, name]: dir is the *)
(* sequence of directory components, name the file's name with extension.  *)
(* A png's content is the image it holds: which job's dataset it was       *)
(* rendered from and at which axis index.                                  *)
(***************************************************************************)
EXTENDS Integers, Sequences, FiniteSets, TLC

\* ------------------------------------------------------------------ bounds
\* Largest cardinality of the iteration axis of a dataset.
MaxN == 2
\* Longest file name enumerated by the file-name specification.
MaxNameLen == 5

\* ------------------------------------------------------- program constants
\* len(filename) > 4, filename[:-4]
ExtLen == 4
\* duration = 100
Duration == 100
\* loop = 0
Loop == 0

\* ------------------------------------------------------------- the inputs
Jobs == {"A", "B"}

EntryPoints ==
    {"data_globe_gif", "connections_globe_gif", "lag_mat_gif_time",
     "lag_network_gif", "corr_thresh_gif", "cca_ang_gif"}

\* The output directories given as filepath.
Filepaths == {<<"out1">>, <<"out2">>}

Chars == {".", "g", "v"}

\* Every file name of at most n characters, the empty one included.
NamesUpTo(n) == UNION {[1..k -> Chars] : k \in 0..n}

\* The file names the jobs of the pipeline specification are given: one
\* without an extension and one that is only an extension.
JobNames == {<<"g">>, <<".", "g", "i", "f">>}

\* A dataset: whose it is, and the values of its iteration axis
\* (ds.time.values, adj_mat_ds.win_start.values, lag_ds.time_win.values).
Dataset(j, n) == [id |-> j, axis |-> [k \in 1..n |-> k - 1]]

NoArgs == [entry |-> "none", ds |-> Dataset("none", 0),
           filepath |-> <<>>, filename |-> <<>>]

NoLocals == [filename |-> <<>>, im_filepath |-> <<>>, num |-> 0, i |-> 0,
             names |-> <<>>, images |-> <<>>]

NoError == [type |-> "none", index |-> -1]

ErrorText == "Error: please input filename without file extension"

VARIABLES
    pc,      \* pc[j]: where job j is
    args,    \* args[j]: the arguments job j was called with
    loc,     \* loc[j]: the local variables of job j
    err,     \* err[j]: the exception job j raised to its caller
    ret,     \* ret[j]: the value job j returned to its caller
    dirs,    \* the directories that exist
    files,   \* the files that exist, path |-> content
    io,      \* io[j]: the file paths job j has read and has written
    overlap  \* overlap[j]: the jobs that have run while job j was running

vars == <<pc, args, loc, err, ret, dirs, files, io, overlap>>

\* --------------------------------------------------------------- helpers
\* '.' in filename
HasDot(filename) == \E k \in DOMAIN filename : filename[k] = "."

\* filename[:-4]
StripExt(filename) == SubSeq(filename, 1, Len(filename) - ExtLen)

\* The "check filename" block.  kind is "ok" (go on with filename),
\* "raise" (ValueError) or "return" (print the message and return it).
CheckFilenameGE(entry, filename) ==
    IF HasDot(filename)
    THEN IF Len(filename) >= ExtLen
         THEN [kind |-> "ok", filename |-> StripExt(filename)]
         ELSE IF entry = "connections_globe_gif"
              THEN [kind |-> "return", filename |-> filename]
              ELSE [kind |-> "raise", filename |-> filename]
    ELSE [kind |-> "ok", filename |-> filename]
CheckFilename(entry, filename) ==
    IF HasDot(filename)
    THEN IF Len(filename) > ExtLen
         THEN [kind |-> "ok", filename |-> StripExt(filename)]
         ELSE IF entry = "connections_globe_gif"
              THEN [kind |-> "return", filename |-> filename]
              ELSE [kind |-> "raise", filename |-> filename]
    ELSE [kind |-> "ok", filename |-> filename]

\* os.makedirs(p): creates p and its missing parents; p itself must not exist.
Prefixes(p) == {SubSeq(p, 1, k) : k \in 1..Len(p)}
Makedirs(ds, p) ==
    IF p \in ds
    THEN [dirs |-> ds, raise |-> "FileExistsError"]
    ELSE [dirs |-> ds \cup Prefixes(p), raise |-> "none"]

\* os.path.exists(p)
PathNeverExists(ds, p) == FALSE
PathExists(ds, p) == p \in ds

\* im_filepath = filepath + '/images_for_giffing'
ImFilepathShared(filepath) == <<"images_for_giffing">>
ImFilepath(filepath) == Append(filepath, "images_for_giffing")

\* '%s' % i for an integer i >= 0: its decimal digits.
Digit(d) ==
    CASE d = 0 -> "0" [] d = 1 -> "1" [] d = 2 -> "2" [] d = 3 -> "3"
      [] d = 4 -> "4" [] d = 5 -> "5" [] d = 6 -> "6" [] d = 7 -> "7"
      [] d = 8 -> "8" [] d = 9 -> "9"
RECURSIVE ToStr(_)
ToStr(n) == IF n < 10 THEN <<Digit(n)>>
            ELSE ToStr(n \div 10) \o <<Digit(n % 10)>>

\* im_name = im_filepath + '/%s.png' % i
ImNameOffByOne(im_filepath, i) ==
    [dir |-> im_filepath, name |-> ToStr(i + 1) \o <<".", "p", "n", "g">>]
ImName(im_filepath, i) ==
    [dir |-> im_filepath, name |-> ToStr(i) \o <<".", "p", "n", "g">>]

\* filepath + '/%s.gif' % filename
GifName(filepath, filename) ==
    [dir |-> filepath, name |-> filename \o <<".", "g", "i", "f">>]

\* The figure a renderer returns for index t of dataset ds.
Render(ds, t) == [kind |-> "png", job |-> ds.id, t |-> ds.axis[t + 1]]

\* A file system with content c written at path p.
WriteFile(fs, p, c) ==
    [q \in (DOMAIN fs) \cup {p} |-> IF q = p THEN c ELSE fs[q]]

\* names.append(im_name)
PrependName(names, im_name) == <<im_name>> \o names
AppendName(names, im_name) == Append(names, im_name)

\* images = []; for n in names: images.append(Image.open(n))
RECURSIVE OpenFrom(_, _, _)
OpenFrom(fs, d, k) ==
    IF ImName(d, k) \in DOMAIN fs
    THEN <<fs[ImName(d, k)]>> \o OpenFrom(fs, d, k + 1)
    ELSE <<>>
OpenEveryPng(fs, names) ==
    IF names = <<>> THEN <<>> ELSE OpenFrom(fs, names[1].dir, 0)
OpenImages(fs, names) == [k \in 1..Len(names) |-> fs[names[k]]]

\* What the opened images hold once their pixels are read: for every frame
\* the image its file held when it was opened or the one it holds now.
Loaded(opened, now) ==
    {l \in [1..Len(opened) -> {opened[k] : k \in 1..Len(opened)}
                                \cup {now[k] : k \in 1..Len(now)}] :
        \A k \in 1..Len(opened) : l[k] \in {opened[k], now[k]}}

\* images[0].save(..., save_all=True, append_images=images[1:],
\*                duration=100, loop=0)
\* images[0] of an empty list raises IndexError before anything is saved.
GifOf(frames) ==
    [kind |-> "gif", frames |-> frames, duration |-> Duration, loop |-> Loop]
SaveAppendOnly(images) ==
    IF images = <<>>
    THEN [raise |-> "IndexError", gif |-> GifOf(<<>>)]
    ELSE [raise |-> "none", gif |-> GifOf(Tail(images))]
SaveUnchecked(images) == [raise |-> "none", gif |-> GifOf(images)]
Save(images) ==
    IF images = <<>>
    THEN [raise |-> "IndexError", gif |-> GifOf(<<>>)]
    ELSE [raise |-> "none", gif |-> GifOf(<<images[1]>> \o Tail(images))]

\* ----------------------------------------------------------------- Init
Init ==
    /\ pc = [j \in Jobs |-> "Idle"]
    /\ args = [j \in Jobs |-> NoArgs]
    /\ loc = [j \in Jobs |-> NoLocals]
    /\ err = [j \in Jobs |-> NoError]
    /\ ret = [j \in Jobs |-> "unset"]
    /\ dirs = {}
    /\ files = <<>>
    /\ io = [j \in Jobs |-> [reads |-> {}, writes |-> {}]]
    /\ overlap = [j \in Jobs |-> {}]

\* Job j has been called and has neither returned nor raised.
Running(j) == pc[j] \notin {"Idle", "Done", "Failed"}

\* Job j raises exception type t (index k of the axis, -1 when none).
Raise(j, t, k) ==
    /\ pc' = [pc EXCEPT ![j] = "Failed"]
    /\ err' = [err EXCEPT ![j] = [type |-> t, index |-> k]]

\* ---------------------------------------------------------------- actions
\* A caller invokes entry point e, at any time and with any filepath.
Call(j, e, fp, fn, n) ==
    /\ pc[j] = "Idle"
    /\ pc' = [pc EXCEPT ![j] = "check_filepath"]
    /\ args' = [args EXCEPT ![j] = [entry |-> e, ds |-> Dataset(j, n),
                                    filepath |-> fp, filename |-> fn]]
    /\ overlap' = [k \in Jobs |->
                      IF k = j THEN {r \in Jobs \ {j} : Running(r)}
                      ELSE IF Running(k) THEN overlap[k] \cup {j}
                      ELSE overlap[k]]
    /\ UNCHANGED <<loc, err, ret, dirs, files, io>>

\* if not os.path.exists(filepath):
CheckFilepath(j) ==
    /\ pc[j] = "check_filepath"
    /\ pc' = [pc EXCEPT ![j] = IF PathExists(dirs, args[j].filepath)
                               THEN "check_im_filepath" ELSE "make_filepath"]
    /\ UNCHANGED <<args, loc, err, ret, dirs, files, io, overlap>>

\*     os.makedirs(filepath)
MakeFilepath(j) ==
    /\ pc[j] = "make_filepath"
    /\ LET m == Makedirs(dirs, args[j].filepath)
       IN /\ dirs' = m.dirs
          /\ IF m.raise # "none"
             THEN Raise(j, m.raise, -1)
             ELSE /\ pc' = [pc EXCEPT ![j] = "check_im_filepath"]
                  /\ UNCHANGED err
    /\ UNCHANGED <<args, loc, ret, files, io, overlap>>

\* im_filepath = filepath + '/images_for_giffing'
\* if not os.path.exists(im_filepath):
CheckImFilepath(j) ==
    /\ pc[j] = "check_im_filepath"
    /\ LET imfp == ImFilepath(args[j].filepath)
       IN /\ loc' = [loc EXCEPT ![j].im_filepath = imfp]
          /\ pc' = [pc EXCEPT ![j] = IF PathExists(dirs, imfp)
                                     THEN "check_filename"
                                     ELSE "make_im_filepath"]
    /\ UNCHANGED <<args, err, ret, dirs, files, io, overlap>>

\*     os.makedirs(im_filepath)
MakeImFilepath(j) ==
    /\ pc[j] = "make_im_filepath"
    /\ LET m == Makedirs(dirs, loc[j].im_filepath)
       IN /\ dirs' = m.dirs
          /\ IF m.raise # "none"
             THEN Raise(j, m.raise, -1)
             ELSE /\ pc' = [pc EXCEPT ![j] = "check_filename"]
                  /\ UNCHANGED err
    /\ UNCHANGED <<args, loc, ret, files, io, overlap>>

\* "check filename", "get constants", names = [].
CheckName(j) ==
    /\ pc[j] = "check_filename"
    /\ LET a == args[j]
           cf == CheckFilename(a.entry, a.filename)
       IN CASE cf.kind = "raise" ->
                  /\ Raise(j, "ValueError", -1)
                  /\ UNCHANGED <<loc, ret>>
            [] cf.kind = "return" ->
                  /\ pc' = [pc EXCEPT ![j] = "Done"]
                  /\ ret' = [ret EXCEPT ![j] = ErrorText]
                  /\ UNCHANGED <<loc, err>>
            [] cf.kind = "ok" ->
                  /\ pc' = [pc EXCEPT ![j] = "RenderingFrames"]
                  /\ loc' = [loc EXCEPT ![j].filename = cf.filename,
                                        ![j].num = Len(a.ds.axis),
                                        ![j].i = 0,
                                        ![j].names = <<>>]
                  /\ UNCHANGED <<err, ret>>
    /\ UNCHANGED <<args, dirs, files, io, overlap>>

\* One pass of the loop body: plot, savefig, names.append.
RenderFrame(j) ==
    /\ pc[j] = "RenderingFrames"
    /\ loc[j].i < loc[j].num
    /\ LET i == loc[j].i
           fig == Render(args[j].ds, i)
           im_name == ImName(loc[j].im_filepath, i)
       IN /\ files' = WriteFile(files, im_name, fig)
          /\ io' = [io EXCEPT ![j].writes = @ \cup {im_name}]
          /\ loc' = [loc EXCEPT ![j].names = AppendName(@, im_name),
                                ![j].i = i + 1]
    /\ UNCHANGED <<pc, args, err, ret, dirs, overlap>>

\* The renderer raises on the current index: nothing catches it.
RenderRaise(j) ==
    /\ pc[j] = "RenderingFrames"
    /\ loc[j].i < loc[j].num
    /\ Raise(j, "RenderError", loc[j].i)
    /\ UNCHANGED <<args, loc, ret, dirs, files, io, overlap>>

\* range(num) is exhausted.
LoopExit(j) ==
    /\ pc[j] = "RenderingFrames"
    /\ loc[j].i = loc[j].num
    /\ pc' = [pc EXCEPT ![j] = "open_images"]
    /\ UNCHANGED <<args, loc, err, ret, dirs, files, io, overlap>>

\* "append plots to each other": every name is opened.
OpenAll(j) ==
    /\ pc[j] = "open_images"
    /\ loc' = [loc EXCEPT ![j].images = OpenImages(files, loc[j].names)]
    /\ io' = [io EXCEPT ![j].reads =
                 @ \cup {loc[j].names[k] : k \in 1..Len(loc[j].names)}]
    /\ pc' = [pc EXCEPT ![j] = "save_gif"]
    /\ UNCHANGED <<args, err, ret, dirs, files, overlap>>

\* "make gif file and save it in filepath".  Image.open is lazy: the pixels
\* of a frame are read when it was opened or when it is saved, so a frame
\* whose file was overwritten in between holds the old or the new image.
SaveGif(j) ==
    /\ pc[j] = "save_gif"
    /\ \E loaded \in Loaded(loc[j].images, OpenImages(files, loc[j].names)) :
          LET s == Save(loaded)
              gif_name == GifName(args[j].filepath, loc[j].filename)
          IN /\ loc' = [loc EXCEPT ![j].images = loaded]
             /\ IF s.raise # "none"
                THEN /\ Raise(j, s.raise, -1)
                     /\ UNCHANGED <<ret, files, io>>
                ELSE /\ pc' = [pc EXCEPT ![j] = "Done"]
                     /\ ret' = [ret EXCEPT ![j] = "None"]
                     /\ files' = WriteFile(files, gif_name, s.gif)
                     /\ io' = [io EXCEPT ![j].writes = @ \cup {gif_name}]
                     /\ UNCHANGED err
    /\ UNCHANGED <<args, dirs, overlap>>

Step(j) ==
    \/ CheckFilepath(j)
    \/ MakeFilepath(j)
    \/ CheckImFilepath(j)
    \/ MakeImFilepath(j)
    \/ CheckName(j)
    \/ RenderFrame(j)
    \/ RenderRaise(j)
    \/ LoopExit(j)
    \/ OpenAll(j)
    \/ SaveGif(j)

\* The pipeline specification: two jobs, run one after the other or
\* interleaved, in the same or in different output directories, on the file
\* names of JobNames.
Next ==
    \/ \E j \in Jobs :
          /\ pc[j] = "Idle"
          /\ \E e \in EntryPoints, fp \in Filepaths,
                fn \in JobNames, n \in 0..MaxN : Call(j, e, fp, fn, n)
    \/ \E j \in Jobs : Step(j)

Spec == Init /\ [][Next]_vars

\* The file-name specification: one job, every file name of at most
\* MaxNameLen characters.
NextName ==
    \/ /\ pc["A"] = "Idle"
       /\ \E e \in EntryPoints, fn \in NamesUpTo(MaxNameLen), n \in 0..1 :
             Call("A", e, <<"out1">>, fn, n)
    \/ Step("A")

SpecName == Init /\ [][NextName]_vars

\* ------------------------------------------------------------ the claims
\* What the claims are stated in: the outcome of a job and the files a job
\* of n frames is expected to leave, written out independently of the
\* operators the actions use.
ResolvingPcs ==
    {"check_filepath", "make_filepath", "check_im_filepath",
     "make_im_filepath", "check_filename"}
\* The state of the job's life cycle that program position p lies in.
PhaseOf(p) ==
    IF p \in ResolvingPcs THEN "ResolvingPaths"
    ELSE IF p \in {"open_images", "save_gif"} THEN "Encoding"
    ELSE p
Terminal(j) == pc[j] \in {"Done", "Failed"}
Succeeded(j) == pc[j] = "Done" /\ ret[j] = "None"
N(j) == Len(args[j].ds.axis)
ContainsDot(fn) == \E k \in 1..Len(fn) : fn[k] = "."
ExtensionOnly(fn) == ContainsDot(fn) /\ Len(fn) <= 4
DecimalDigits == <<"0", "1", "2", "3", "4", "5", "6", "7", "8", "9">>
ScratchDir(j) == <<args[j].filepath[1], "images_for_giffing">>
FramePath(j, i) ==
    [dir |-> ScratchDir(j), name |-> <<DecimalDigits[i + 1], ".", "p", "n", "g">>]
FrameImage(j, i) == [kind |-> "png", job |-> j, t |-> i]
OwnFrames(j) == [x \in 1..N(j) |-> FrameImage(j, x - 1)]
AnimationPath(j) ==
    [dir |-> args[j].filepath, name |-> loc[j].filename \o <<".", "g", "i", "f">>]
FilesIn(d) == {p \in DOMAIN files : p.dir = d}
IsPrefix(r, d) == Len(r) <= Len(d) /\ SubSeq(d, 1, Len(r)) = r
\* No job given job j's output directory has run while job j was running:
\* the jobs in that directory ran one after another.
Undisturbed(j) ==
    \A k \in overlap[j] : args[k].filepath # args[j].filepath
\* No other job has been given job j's output directory.
AloneInDir(j) ==
    \A k \in Jobs \ {j} : pc[k] = "Idle" \/ args[k].filepath # args[j].filepath

\* C1: a job that succeeds in a fresh output directory leaves exactly the
\* frame files 0.png .. (N-1).png in <output_dir>/images_for_giffing and
\* exactly one animation file in <output_dir>, holding exactly N frames.
C1_FramesAndOneAnimation ==
    \A j \in Jobs :
        (Succeeded(j) /\ AloneInDir(j)) =>
            /\ N(j) >= 1
            /\ FilesIn(ScratchDir(j)) = {FramePath(j, i) : i \in 0..(N(j) - 1)}
            /\ FilesIn(args[j].filepath) = {AnimationPath(j)}
            /\ files[AnimationPath(j)].kind = "gif"
            /\ Len(files[AnimationPath(j)].frames) = N(j)
            /\ \A p \in DOMAIN files :
                   IsPrefix(args[j].filepath, p.dir) =>
                       p.dir \in {args[j].filepath, ScratchDir(j)}

C1_Witness ==
    \E j \in Jobs :
        /\ Succeeded(j) /\ AloneInDir(j) /\ N(j) = 2
        /\ Len(files[AnimationPath(j)].frames) = 2

\* C2: at every point of a job the list of persisted frame paths is the
\* paths of the axis indices 0 .. k-1 in increasing order, and in every
\* animation the frame at position i is an image rendered for index i: the
\* job's own, when no job ran in its directory at the same time.
C2_FrameOrder ==
    /\ \A j \in Jobs :
           /\ loc[j].names = [x \in 1..loc[j].i |-> FramePath(j, x - 1)]
           /\ loc[j].i <= N(j)
           /\ PhaseOf(pc[j]) = "Encoding" => loc[j].i = N(j)
           /\ Succeeded(j) =>
                  /\ loc[j].i = N(j)
                  /\ Len(loc[j].images) = N(j)
                  /\ \A x \in 1..N(j) : loc[j].images[x].t = x - 1
                  /\ Undisturbed(j) =>
                         \A x \in 1..N(j) :
                             loc[j].images[x] = FrameImage(j, x - 1)
    /\ \A p \in DOMAIN files :
           files[p].kind = "gif" =>
               \A x \in 1..Len(files[p].frames) : files[p].frames[x].t = x - 1

C2_Witness ==
    \E j \in Jobs :
        /\ Succeeded(j) /\ N(j) = 2
        /\ loc[j].names = <<FramePath(j, 0), FramePath(j, 1)>>
        /\ files[AnimationPath(j)].frames = <<FrameImage(j, 0), FrameImage(j, 1)>>

\* C3: when the renderer raises on index k the job fails with that error:
\* the frames 0.png .. (k-1).png it wrote are on disk, it wrote no frame of
\* index >= k, it never opened a frame (the encoder was not invoked) and it
\* wrote no gif.
C3_RenderErrorAborts ==
    \A j \in Jobs :
        err[j].type = "RenderError" =>
            LET k == err[j].index IN
            /\ pc[j] = "Failed"
            /\ ret[j] = "unset"
            /\ 0 <= k /\ k < N(j)
            /\ io[j].writes = {FramePath(j, i) : i \in 0..(k - 1)}
            /\ io[j].writes \subseteq DOMAIN files
            /\ AloneInDir(j) =>
                   \A i \in 0..(k - 1) : files[FramePath(j, i)] = FrameImage(j, i)
            /\ io[j].reads = {}
            /\ loc[j].images = <<>>
            /\ Undisturbed(j) =>
                   \A p \in DOMAIN files :
                       files[p].kind = "gif" =>
                           \A x \in 1..Len(files[p].frames) :
                               files[p].frames[x].job # j

C3_Witness ==
    \E j \in Jobs :
        /\ pc[j] = "Failed" /\ err[j] = [type |-> "RenderError", index |-> 1]
        /\ N(j) = 2
        /\ io[j].writes = {FramePath(j, 0)}
        /\ files[FramePath(j, 0)] = FrameImage(j, 0)

\* C4: in every entry point an extension-only file name makes the job fail
\* with the invalid-name error (ValueError) raised to the caller, with no
\* frame rendered and no animation written; no entry point returns normally.
\* (Stated of the jobs that reach the check of the file name.)
C4_ExtensionOnlyRaises ==
    \A j \in Jobs :
        (Terminal(j) /\ ExtensionOnly(args[j].filename)
           /\ err[j].type # "FileExistsError") =>
            /\ pc[j] = "Failed"
            /\ err[j].type = "ValueError"
            /\ io[j].writes = {}

\* C5: a job whose iteration axis is empty hands the encoder an empty list:
\* it fails there with an error (IndexError of images[0], standing for
\* EmptyAnimation), never succeeds and writes no file.  (A job that does not
\* reach the encoder failed earlier, on the file name or on a directory.)
C5_ZeroFramesRejected ==
    \A j \in Jobs :
        N(j) = 0 =>
            /\ io[j].writes = {}
            /\ ~Succeeded(j)
            /\ pc[j] = "save_gif" => loc[j].images = <<>>
            /\ (Terminal(j) /\ ~ExtensionOnly(args[j].filename)
                  /\ err[j].type # "FileExistsError") =>
                   /\ pc[j] = "Failed"
                   /\ err[j].type = "IndexError"
                   /\ ret[j] = "unset"
            /\ AloneInDir(j) => FilesIn(args[j].filepath) = {}

C5_Witness ==
    \E j \in Jobs :
        /\ pc[j] = "Failed" /\ err[j].type = "IndexError"
        /\ N(j) = 0 /\ loc[j].names = <<>> /\ AloneInDir(j)

\* The outcome of the file-name check of a job that is past it.
PastNameCheck(j) ==
    /\ pc[j] \notin {"Idle"} \cup ResolvingPcs
    /\ err[j].type # "FileExistsError"
Rejected(j) ==
    \/ pc[j] = "Failed" /\ err[j].type = "ValueError"
    \/ pc[j] = "Done" /\ ret[j] = ErrorText
Accepted(j) == PastNameCheck(j) /\ ~Rejected(j)
C6_Resolution(j) ==
    LET fn == args[j].filename IN
    /\ ~ContainsDot(fn) => (Accepted(j) /\ loc[j].filename = fn)
    /\ ContainsDot(fn) =>
           /\ Rejected(j) <=> (Len(fn) - 4 < 1)
           /\ Accepted(j) =>
                  loc[j].filename = [x \in 1..(Len(fn) - 4) |-> fn[x]]
    /\ Succeeded(j) =>
           /\ AnimationPath(j) \in io[j].writes
           /\ files[AnimationPath(j)].kind = "gif"
           /\ \A p \in io[j].writes :
                  p.dir = args[j].filepath => p = AnimationPath(j)

\* C6 as stated: a name without '.' is used unchanged, a name with '.' is
\* rejected exactly when fewer than one character would be left after its
\* last 4 characters are removed and is otherwise used without its last 4
\* characters, the resolved stem is never empty, and the animation is
\* written to <output_dir>/<resolved stem>.gif.
C6_StemNeverEmpty ==
    \A j \in Jobs :
        PastNameCheck(j) =>
            /\ C6_Resolution(j)
            /\ Accepted(j) => loc[j].filename # <<>>

\* C6 as amended: the same, with the resolved stem non-empty for every
\* non-empty file name (the empty name holds no '.', is used unchanged and
\* gives <output_dir>/.gif).
C6_StemOfNonEmptyName ==
    \A j \in Jobs :
        PastNameCheck(j) =>
            /\ C6_Resolution(j)
            /\ (Accepted(j) /\ args[j].filename # <<>>) => loc[j].filename # <<>>
            /\ (Accepted(j) /\ args[j].filename = <<>>) => loc[j].filename = <<>>

C6_Witness ==
    /\ Succeeded("A")
    /\ args["A"].filename = <<"g", "g", ".", "v", "v">>
    /\ loc["A"].filename = <<"g">>
    /\ [dir |-> <<"out1">>, name |-> <<"g", ".", "g", "i", "f">>] \in DOMAIN files

\* C7: a job moves only along Idle -> ResolvingPaths -> RenderingFrames ->
\* Encoding -> Done, or from a running state to Failed; Done and Failed are
\* left by no step; and Encoding is entered only with all N frames persisted.
AllowedTransitions ==
    {<<"Idle", "ResolvingPaths">>, <<"ResolvingPaths", "RenderingFrames">>,
     <<"RenderingFrames", "Encoding">>, <<"Encoding", "Done">>,
     <<"ResolvingPaths", "Failed">>, <<"RenderingFrames", "Failed">>,
     <<"Encoding", "Failed">>}
C7_StateMachine ==
    [][\A j \in Jobs :
          /\ PhaseOf(pc'[j]) # PhaseOf(pc[j]) =>
                 <<PhaseOf(pc[j]), PhaseOf(pc'[j])>> \in AllowedTransitions
          /\ PhaseOf(pc'[j]) = "Encoding" =>
                 /\ Len(loc'[j].names) = N(j)
                 /\ \A x \in 1..N(j) : loc'[j].names[x] \in DOMAIN files']_vars

\* C8: two jobs given distinct output directories touch only files under
\* their own directory, and when both have succeeded each directory holds
\* its job's frames 0.png .. (N-1).png and an animation of its job's frames
\* in order.
C8_DistinctDirsIndependent ==
    \A j \in Jobs : \A k \in Jobs \ {j} :
        (pc[j] # "Idle" /\ pc[k] # "Idle"
           /\ args[j].filepath # args[k].filepath) =>
            /\ \A p \in io[j].reads \cup io[j].writes :
                   /\ IsPrefix(args[j].filepath, p.dir)
                   /\ ~IsPrefix(args[k].filepath, p.dir)
            /\ \A i \in 0..(loc[j].i - 1) : files[FramePath(j, i)] = FrameImage(j, i)
            /\ Succeeded(j) =>
                   /\ FilesIn(ScratchDir(j)) = {FramePath(j, i) : i \in 0..(N(j) - 1)}
                   /\ files[AnimationPath(j)].frames = OwnFrames(j)

C8_Witness ==
    /\ Succeeded("A") /\ Succeeded("B")
    /\ args["A"].filepath # args["B"].filepath
    /\ N("A") = 1 /\ N("B") = 2
    /\ files[AnimationPath("A")].frames = OwnFrames("A")
    /\ files[AnimationPath("B")].frames = OwnFrames("B")

\* C9: a job run after (not at the same time as) the other jobs of its
\* output directory never fails because the output directory or the scratch
\* directory already exists; it succeeds as the first did and leaves its N
\* frames and its animation on disk.
C9_DirectoriesIdempotent ==
    \A j \in Jobs :
        /\ Undisturbed(j) => err[j].type # "FileExistsError"
        /\ PastNameCheck(j) => {args[j].filepath, ScratchDir(j)} \subseteq dirs
        /\ Succeeded(j) =>
               /\ \A i \in 0..(N(j) - 1) : FramePath(j, i) \in DOMAIN files
               /\ AnimationPath(j) \in DOMAIN files

C9_Witness ==
    /\ Succeeded("A") /\ Succeeded("B")
    /\ overlap["A"] = {} /\ overlap["B"] = {}
    /\ args["A"].filepath = args["B"].filepath
    /\ N("A") >= 1 /\ N("B") >= 1

\* C10: when the jobs of an output directory run one after another, every
\* animation is composed of exactly the frames that the job that wrote it
\* rendered itself, indices 0 .. N-1; frame files left by an earlier job stay
\* on disk (nothing a job wrote is ever removed) and are not included.
C10_OnlyOwnFrames ==
    /\ \A p \in DOMAIN files :
           files[p].kind = "gif" =>
               \E j \in Jobs :
                   /\ Succeeded(j) /\ p = AnimationPath(j)
                   /\ Undisturbed(j) =>
                          files[p] = [kind |-> "gif", frames |-> OwnFrames(j),
                                      duration |-> 100, loop |-> 0]
    /\ \A j \in Jobs :
           /\ io[j].writes \subseteq DOMAIN files
           /\ Succeeded(j) =>
                  /\ io[j].reads = {FramePath(j, i) : i \in 0..(N(j) - 1)}
                  /\ Undisturbed(j) => loc[j].images = OwnFrames(j)

C10_Witness ==
    \E j \in Jobs : \E k \in Jobs \ {j} :
        /\ Succeeded(j) /\ N(j) = 1
        /\ Succeeded(k) /\ N(k) = 2
        /\ overlap[j] = {} /\ overlap[k] = {}
        /\ args[j].filepath = args[k].filepath
        /\ files[FramePath(j, 0)] = FrameImage(j, 0)
        /\ files[FramePath(j, 1)] = FrameImage(k, 1)
        /\ Cardinality(FilesIn(ScratchDir(j))) = 2
        /\ files[AnimationPath(j)].frames = <<FrameImage(j, 0)>>

====
